---- MODULE Spec2Model ----
(***************************************************************************)
(* onchange (src/main.go): a runner that watches a directory and, on the   *)
(* next tick after a qualifying filesystem event, kills the managed        *)
(* command and starts it again.                                            *)
(*                                                                         *)
(* The model follows runner.Run: the for/select loop (one action per case, *)
(* the tick case split at the points where the awaiter goroutines, which   *)
(* share the variable cmd with the loop, can interleave), the goroutines   *)
(* started by `go func() { done <- cmd.Wait() }()`, the child processes,   *)
(* and the producers of the three channels the loop selects on.            *)
(* Strings are sequences of one-character strings.                         *)
(***************************************************************************)
EXTENDS Integers, Sequences, FiniteSets, TLC

(* ---------------------------------------------------------------- bounds *)
\* Start calls in one run (also the number of Cmd values and awaiters).
MaxLaunch == 2
\* Notifications the watcher delivers in one run.
MaxEvents == 2
\* Inputs of exclude when it is checked on its own.
MaxTextLen == 3
MaxPatLen == 2
MaxPats == 2

(* ------------------------------------------------------------- constants *)
\* var cmd *exec.Cmd: the nil pointer; a Cmd is numbered 1..MaxLaunch.
Nil == 0
\* fsnotify.Op bits.
Create == 1
Write == 2
Remove == 4
Rename == 8
Chmod == 16

GIT == <<".", "g", "i", "t">>

ErrFinished == "os: process already finished"
ErrKilled == "signal: killed"
ErrPerm == "operation not permitted"
ErrStart == "exec: executable file not found"
ErrWatcher == "fsnotify: watcher error"
ErrNotStarted == "exec: not started"
ErrWaitTwice == "exec: Wait was already called"
ErrExit == "exit status 1"
NoErr == "nil"

(* --------------------------------------------------------------- strings *)
\* strings.Index(s, substr) >= 0, scanning the start positions from i.
RECURSIVE ContainsFrom(_, _, _)
ContainsFrom(s, substr, i) ==
    IF i + Len(substr) > Len(s) THEN FALSE
    ELSE IF SubSeq(s, i + 1, i + Len(substr)) = substr THEN TRUE
    ELSE ContainsFrom(s, substr, i + 1)

\* strings.Contains(s, substr)
Contains(s, substr) == ContainsFrom(s, substr, 0)

\* the loop `for _, e := range r.ex` of runner.exclude, from index i
RECURSIVE excludeFrom(_, _, _)
excludeFrom(p, exs, i) ==
    IF i > Len(exs) THEN FALSE
    ELSE IF Contains(p, exs[i]) THEN TRUE
    ELSE excludeFrom(p, exs, i + 1)

exclude_first(p, exs) == Len(exs) >= 1 /\ Contains(p, exs[1])

\* runner.exclude(p), with r.ex = exs
exclude(p, exs) ==
    IF Len(exs) < 1 THEN FALSE ELSE excludeFrom(p, exs, 1)

\* strings.Split(s, ","), for s # ""
RECURSIVE SplitComma(_, _)
SplitComma(s, cur) ==
    IF s = <<>> THEN <<cur>>
    ELSE IF Head(s) = "," THEN <<cur>> \o SplitComma(Tail(s), <<>>)
    ELSE SplitComma(Tail(s), Append(cur, Head(s)))

\* exArr of runOnchange: ".git", then the parts of --exclude
exArr(exFlag) ==
    IF exFlag # <<>> THEN <<GIT>> \o SplitComma(exFlag, <<>>) ELSE <<GIT>>

\* fmt's %q of a file name: quoted, with quote and backslash escaped
RECURSIVE Escape(_)
Escape(s) ==
    IF s = <<>> THEN <<>>
    ELSE IF Head(s) \in {"\"", "\\"} THEN <<"\\", Head(s)>> \o Escape(Tail(s))
    ELSE <<Head(s)>> \o Escape(Tail(s))

Quote(s) == <<"\"">> \o Escape(s) \o <<"\"">>

HasOp(op, bit) == (op \div bit) % 2 = 1

\* fsnotify.Op.String(): the names of the bits set, joined by "|"
OpString(op) ==
    LET all == (IF HasOp(op, Create) THEN <<"|", "C", "R", "E", "A", "T", "E">> ELSE <<>>)
            \o (IF HasOp(op, Remove) THEN <<"|", "R", "E", "M", "O", "V", "E">> ELSE <<>>)
            \o (IF HasOp(op, Write) THEN <<"|", "W", "R", "I", "T", "E">> ELSE <<>>)
            \o (IF HasOp(op, Rename) THEN <<"|", "R", "E", "N", "A", "M", "E">> ELSE <<>>)
            \o (IF HasOp(op, Chmod) THEN <<"|", "C", "H", "M", "O", "D">> ELSE <<>>)
    IN IF all = <<>> THEN <<>> ELSE Tail(all)

\* fsnotify.Event.String(): fmt.Sprintf("%q: %s", e.Name, e.Op)
EventString(e) == Quote(e.name) \o <<":", " ">> \o OpString(e.op)

skip_noChmod(e, exs) == exclude(EventString(e), exs)

skip_noExclude(e, exs) == e.op = Chmod

skip_anyChmod(e, exs) == HasOp(e.op, Chmod) \/ exclude(EventString(e), exs)

\* the condition of the w.Events case: e.Op == fsnotify.Chmod || r.exclude(e.String())
skip(e, exs) == e.op = Chmod \/ exclude(EventString(e), exs)

(* ---------------------------------------------------------------- inputs *)
\* values of --exclude
ExFlags == {<<>>, <<"n", "m", ",", "C", "H">>}

PlainName == <<"/", "a">>

GitName == <<"/", ".", "g", "i", "t", "/", "a">>

ModName == <<"/", "n", "m", "/", "a">>

\* the notifications the watcher delivers
Events ==
    {[name |-> PlainName, op |-> Write],
     [name |-> PlainName, op |-> Chmod],
     [name |-> PlainName, op |-> Write + Chmod],
     [name |-> GitName, op |-> Write],
     [name |-> ModName, op |-> Create]}

NoEvent == [name |-> <<>>, op |-> 0]

Alphabet == {"a", "b"}

SeqsUpTo(S, n) == UNION {[1..k -> S] : k \in 0..n}

(* ----------------------------------------------------------------- state *)
VARIABLES
    ex,         \* r.ex: the exclude patterns
    resetNext,  \* r.resetNext: the pending-restart flag
    mu,         \* r.mu: TRUE while locked
    cmd,        \* the local variable cmd of Run: Nil or a Cmd
    procs,      \* the Cmd values created by newCmd and their OS processes
    awaiters,   \* the goroutines `done <- cmd.Wait()`, one per successful Start
    pc,         \* where the loop of Run is
    retErr,     \* what Run returned
    events,     \* the notification the watcher is offering on w.Events, if any
    arrived,    \* notifications delivered so far
    nLaunch,    \* calls of cmd.Start so far
    nKill,      \* calls of cmd.Process.Kill so far
    sinceTick,  \* notifications that armed the flag since the last tick case
    tk,         \* the tick case being run, or the last one run
    last,       \* the select case the loop took last, and what it logged as an error
    probe,      \* an input of exclude and its result, when checked on its own
    args        \* the command-line flags, until runOnchange has read them

vars == <<ex, resetNext, mu, cmd, procs, awaiters, pc, retErr, events,
          arrived, nLaunch, nKill, sinceTick, tk, last, probe, args>>

Cmds == 1..MaxLaunch

\* who holds r.mu: only the loop calls r.mu.Lock (in the tick and events cases)
LockHolder == IF mu THEN "loop" ELSE "none"

NoProc == [st |-> "none", waited |-> FALSE, reaped |-> FALSE]

NoAwaiter == [pc |-> "none", target |-> Nil, res |-> NoErr]

NoTick == [fired |-> FALSE, armed |-> 0, old |-> Nil, kills |-> 0,
           launches |-> 0, killRes |-> "none"]

NoProbe == [text |-> <<>>, pats |-> <<>>, done |-> FALSE, out |-> FALSE]

NoArgs == [dir |-> <<>>, command |-> <<>>, interval |-> <<>>, exclude |-> <<>>,
           read |-> TRUE]

InitResetNext_unarmed == FALSE

\* resetNext: true, in the runner literal of runOnchange
InitResetNext == TRUE

\* the runner built by runOnchange and the locals of Run before the loop
InitRun ==
    /\ resetNext = InitResetNext
    /\ mu = FALSE
    /\ cmd = Nil
    /\ procs = [p \in Cmds |-> NoProc]
    /\ awaiters = [a \in Cmds |-> NoAwaiter]
    /\ pc = "select"
    /\ retErr = NoErr
    /\ events = <<>>
    /\ arrived = 0
    /\ nLaunch = 0
    /\ nKill = 0
    /\ sinceTick = 0
    /\ tk = NoTick
    /\ last = [kind |-> "none", ev |-> NoEvent, logged |-> NoErr]

Init ==
    /\ \E f \in ExFlags : ex = exArr(f)
    /\ InitRun
    /\ probe = NoProbe
    /\ args = NoArgs

\* Run has neither returned nor been ended by a panic of one of its goroutines
Running == pc \notin {"returned", "panicked"}

(* ------------------------------------------------------ the environment *)
\* the watcher offers an event on w.Events, a channel without buffer: one at a time
EventArrive(e) ==
    /\ Running
    /\ arrived < MaxEvents
    /\ events = <<>>
    /\ events' = Append(events, e)
    /\ arrived' = arrived + 1
    /\ UNCHANGED <<ex, resetNext, mu, cmd, procs, awaiters, pc, retErr, nLaunch, nKill, sinceTick, tk, last, probe, args>>

\* a running child exits on its own
ProcExit(p) ==
    /\ procs[p].st = "running"
    /\ procs' = [procs EXCEPT ![p].st = "exited"]
    /\ UNCHANGED <<ex, resetNext, mu, cmd, awaiters, pc, retErr, events,
                   arrived, nLaunch, nKill, sinceTick, tk, last, probe, args>>

(* ------------------------------------------------- the awaiter goroutines *)
\* go func() { done <- cmd.Wait() }(): the goroutine evaluates the shared variable
\* cmd when it runs, without the lock, and calls Wait on what it finds there
AwaiterRead(a) ==
    /\ Running
    /\ awaiters[a].pc = "read"
    /\ IF cmd = Nil
       THEN \* Wait on a nil *exec.Cmd: nil pointer dereference, the program dies
            /\ pc' = "panicked"
            /\ awaiters' = [awaiters EXCEPT ![a].pc = "end"]
            /\ UNCHANGED procs
       ELSE /\ pc' = pc
            /\ IF procs[cmd].st = "new"
               THEN /\ awaiters' = [awaiters EXCEPT ![a] =
                          [pc |-> "send", target |-> cmd, res |-> ErrNotStarted]]
                    /\ UNCHANGED procs
               ELSE IF procs[cmd].waited
               THEN /\ awaiters' = [awaiters EXCEPT ![a] =
                          [pc |-> "send", target |-> cmd, res |-> ErrWaitTwice]]
                    /\ UNCHANGED procs
               ELSE /\ awaiters' = [awaiters EXCEPT ![a] =
                          [pc |-> "wait", target |-> cmd, res |-> NoErr]]
                    /\ procs' = [procs EXCEPT ![cmd].waited = TRUE]
    /\ UNCHANGED <<ex, resetNext, mu, cmd, retErr, events, arrived, nLaunch, nKill, sinceTick, tk, last, probe, args>>

\* Wait returns once the process has ended, and reaps it
AwaiterWait(a, res) ==
    /\ Running
    /\ awaiters[a].pc = "wait"
    /\ LET p == awaiters[a].target IN
       /\ procs[p].st \in {"exited", "killed"}
       /\ res \in (IF procs[p].st = "killed" THEN {ErrKilled} ELSE {NoErr, ErrExit})
       /\ procs' = [procs EXCEPT ![p].reaped = TRUE]
    /\ awaiters' = [awaiters EXCEPT ![a].pc = "send", ![a].res = res]
    /\ UNCHANGED <<ex, resetNext, mu, cmd, pc, retErr, events, arrived, nLaunch, nKill, sinceTick, tk, last, probe, args>>

(* ------------------------------------------------------ the loop of Run *)
\* if err != nil && err.Error() != "signal: killed" { log.Error(err) }
LogsError(err) == err # NoErr /\ err # ErrKilled

OnDone_rearm(a) ==
    /\ pc = "select"
    /\ awaiters[a].pc = "send"
    /\ awaiters' = [awaiters EXCEPT ![a] = [pc |-> "end", target |-> Nil, res |-> NoErr]]
    /\ last' = [kind |-> "done", ev |-> NoEvent,
                logged |-> IF LogsError(awaiters[a].res) THEN awaiters[a].res ELSE NoErr]
    /\ resetNext' = TRUE
    /\ UNCHANGED <<ex, mu, cmd, procs, pc, retErr, events, arrived, nLaunch, nKill,
                   sinceTick, tk, probe, args>>

\* case err := <-done
OnDone(a) ==
    /\ pc = "select"
    /\ awaiters[a].pc = "send"
    /\ awaiters' = [awaiters EXCEPT ![a] = [pc |-> "end", target |-> Nil, res |-> NoErr]]
    /\ last' = [kind |-> "done", ev |-> NoEvent,
                logged |-> IF LogsError(awaiters[a].res) THEN awaiters[a].res ELSE NoErr]
    /\ UNCHANGED <<ex, resetNext, mu, cmd, procs, pc, retErr, events, arrived, nLaunch, nKill, sinceTick, tk, probe, args>>

FlagAfterFire_kept == TRUE

\* r.resetNext = false
FlagAfterFire == FALSE

NeedsKill_never(c) == FALSE

\* if cmd != nil
NeedsKill(c) == c # Nil

\* case <-r.resetTicker.C (the ticker sends a tick and the loop takes it): lock,
\* test the flag, clear it
OnTick ==
    /\ pc = "select"
    /\ resetNext => nLaunch < MaxLaunch
    /\ IF resetNext
       THEN /\ resetNext' = FlagAfterFire
            /\ mu' = TRUE
            /\ pc' = IF NeedsKill(cmd) THEN "kill" ELSE "newCmd"
       ELSE /\ UNCHANGED <<resetNext, mu>>
            /\ pc' = "select"
    /\ tk' = [fired |-> resetNext, armed |-> sinceTick, old |-> cmd,
              kills |-> 0, launches |-> 0, killRes |-> "none"]
    /\ sinceTick' = 0
    /\ last' = [kind |-> "tick", ev |-> NoEvent, logged |-> NoErr]
    /\ UNCHANGED <<ex, cmd, procs, awaiters, retErr, events, arrived, nLaunch, nKill, probe, args>>

\* what cmd.Process.Kill() can return: a process that Wait has reaped is finished;
\* otherwise the signal is sent (also to a process that exited and was not reaped)
\* or the system refuses it
KillOutcomes(p) == IF p.reaped THEN {ErrFinished} ELSE {NoErr, ErrPerm}

KillFatal_never(err) == FALSE

KillFatal_always(err) == err # NoErr

\* err != nil && err.Error() != "os: process already finished"
KillFatal(err) == err # NoErr /\ err # ErrFinished

\* the error the kill branch returns
KillReturn(err) == err

\* the tick case, flag set, a process tracked: cmd.Process.Kill(), then cmd = nil
OnTickKill(err) ==
    /\ pc = "kill"
    /\ err \in KillOutcomes(procs[cmd])
    /\ procs' = IF err = NoErr /\ procs[cmd].st = "running"
                THEN [procs EXCEPT ![cmd].st = "killed"] ELSE procs
    /\ nKill' = nKill + 1
    /\ tk' = [tk EXCEPT !.kills = @ + 1, !.killRes = err]
    /\ IF KillFatal(err)
       THEN /\ pc' = "returned"
            /\ retErr' = KillReturn(err)
            /\ UNCHANGED cmd
       ELSE /\ pc' = "newCmd"
            /\ cmd' = Nil
            /\ UNCHANGED retErr
    /\ UNCHANGED <<ex, resetNext, mu, awaiters, events, arrived, nLaunch, sinceTick, last, probe, args>>

\* the tick case: cmd = r.newCmd()
OnTickNew ==
    /\ pc = "newCmd"
    /\ cmd' = nLaunch + 1
    /\ procs' = [procs EXCEPT ![nLaunch + 1].st = "new"]
    /\ pc' = "start"
    /\ UNCHANGED <<ex, resetNext, mu, awaiters, retErr, events, arrived, nLaunch, nKill, sinceTick, tk, last, probe, args>>

OnTickStart_ignore(ok) ==
    /\ pc = "start"
    /\ nLaunch' = nLaunch + 1
    /\ tk' = [tk EXCEPT !.launches = @ + 1]
    /\ procs' = IF ok THEN [procs EXCEPT ![cmd].st = "running"] ELSE procs
    /\ awaiters' = [awaiters EXCEPT ![cmd].pc = "read"]
    /\ mu' = FALSE
    /\ pc' = "select"
    /\ UNCHANGED <<ex, resetNext, cmd, retErr, events, arrived, nKill, sinceTick,
                   last, probe, args>>

\* the tick case: cmd.Start(), the go statement, r.mu.Unlock()
OnTickStart(ok) ==
    /\ pc = "start"
    /\ nLaunch' = nLaunch + 1
    /\ tk' = [tk EXCEPT !.launches = @ + 1]
    /\ IF ok
       THEN /\ procs' = [procs EXCEPT ![cmd].st = "running"]
            /\ awaiters' = [awaiters EXCEPT ![cmd].pc = "read"]
            /\ mu' = FALSE
            /\ pc' = "select"
            /\ UNCHANGED retErr
       ELSE /\ pc' = "returned"
            /\ retErr' = ErrStart
            /\ UNCHANGED <<procs, awaiters, mu>>
    /\ UNCHANGED <<ex, resetNext, cmd, events, arrived,
                   nKill, sinceTick, last, probe, args>>

FlagAfterEvent_toggle(cur) == ~cur

FlagAfterEvent_keep(cur) == cur

\* r.resetNext = true
FlagAfterEvent(cur) == TRUE

AfterEvent_restart(skipped, c) ==
    IF skipped THEN "select" ELSE IF c # Nil THEN "kill" ELSE "newCmd"

\* the w.Events case ends and the loop selects again
AfterEvent(skipped, c) == "select"

\* case e := <-w.Events
OnEvent ==
    /\ pc = "select"
    /\ events # <<>>
    /\ LET e == Head(events) IN
       /\ events' = Tail(events)
       /\ IF skip(e, ex)
          THEN UNCHANGED <<resetNext, sinceTick>>
          ELSE /\ resetNext' = FlagAfterEvent(resetNext)
               /\ sinceTick' = sinceTick + 1
       /\ pc' = AfterEvent(skip(e, ex), cmd)
       /\ last' = [kind |-> "event", ev |-> e, logged |-> NoErr]
    /\ UNCHANGED <<ex, mu, cmd, procs, awaiters, retErr, arrived, nLaunch, nKill, tk, probe, args>>

OnWatcherError_continue ==
    /\ pc = "select"
    /\ last' = [kind |-> "werr", ev |-> NoEvent, logged |-> ErrWatcher]
    /\ UNCHANGED <<ex, resetNext, mu, cmd, procs, awaiters, pc, retErr, events,
                   arrived, nLaunch, nKill, sinceTick, tk, probe, args>>

OnWatcherError_cleanup ==
    /\ pc = "select"
    /\ pc' = "returned"
    /\ retErr' = ErrWatcher
    /\ last' = [kind |-> "werr", ev |-> NoEvent, logged |-> NoErr]
    /\ procs' = IF cmd # Nil /\ procs[cmd].st = "running"
                THEN [procs EXCEPT ![cmd].st = "killed"] ELSE procs
    /\ cmd' = Nil
    /\ UNCHANGED <<ex, resetNext, mu, awaiters, events, arrived, nLaunch, nKill,
                   sinceTick, tk, probe, args>>

\* case err := <-w.Errors: return err (the watcher offers an error and the loop
\* takes it)
OnWatcherError ==
    /\ pc = "select"
    /\ pc' = "returned"
    /\ retErr' = ErrWatcher
    /\ last' = [kind |-> "werr", ev |-> NoEvent, logged |-> NoErr]
    /\ UNCHANGED <<ex, resetNext, mu, cmd, procs, awaiters, events, arrived, nLaunch, nKill, sinceTick, tk, probe, args>>

Next ==
    \/ \E e \in Events : EventArrive(e)
    \/ \E p \in Cmds : ProcExit(p)
    \/ \E a \in Cmds : AwaiterRead(a)
    \/ \E a \in Cmds : \E res \in {NoErr, ErrExit, ErrKilled} : AwaiterWait(a, res)
    \/ \E a \in Cmds : OnDone(a)
    \/ OnTick
    \/ \E err \in {NoErr, ErrFinished, ErrPerm} : OnTickKill(err)
    \/ OnTickNew
    \/ \E ok \in BOOLEAN : OnTickStart(ok)
    \/ OnEvent
    \/ OnWatcherError

Spec == Init /\ [][Next]_vars

(* ------------------------------------------- exclude, checked on its own *)
Texts == SeqsUpTo(Alphabet, MaxTextLen)

Pats == SeqsUpTo(Alphabet, MaxPatLen)

PatLists == SeqsUpTo(Pats, MaxPats)

InitExclude ==
    /\ ex = exArr(<<>>)
    /\ InitRun
    /\ probe \in [text : Texts, pats : PatLists, done : {FALSE}, out : {FALSE}]
    /\ args = NoArgs

\* a call r.exclude(text) with r.ex = pats
ApplyExclude ==
    /\ ~probe.done
    /\ probe' = [probe EXCEPT !.done = TRUE, !.out = exclude(probe.text, probe.pats)]
    /\ UNCHANGED <<ex, resetNext, mu, cmd, procs, awaiters, pc, retErr, events,
                   arrived, nLaunch, nKill, sinceTick, tk, last, args>>

NextExclude == ApplyExclude

SpecExclude == InitExclude /\ [][NextExclude]_vars

(* ------------------------------------------------ startup, before the loop *)
ErrNoDir == "watch-dir is required!"

ErrNoCommand == "command is required!"

ErrInterval == "unknown interval"

ErrWatch == "no such file or directory"

NS == <<"n", "s">>

MS == <<"m", "s">>

\* strings.Replace(s, old, "", -1), for old # ""
RECURSIVE RemoveAll(_, _)
RemoveAll(s, old) ==
    IF Len(s) < Len(old) THEN s
    ELSE IF SubSeq(s, 1, Len(old)) = old
    THEN RemoveAll(SubSeq(s, Len(old) + 1, Len(s)), old)
    ELSE <<Head(s)>> \o RemoveAll(Tail(s), old)

Digits == {"0", "1", "2", "3", "4", "5", "6", "7", "8", "9"}

DigitVal(c) ==
    CASE c = "0" -> 0 [] c = "1" -> 1 [] c = "2" -> 2 [] c = "3" -> 3 [] c = "4" -> 4
      [] c = "5" -> 5 [] c = "6" -> 6 [] c = "7" -> 7 [] c = "8" -> 8 [] c = "9" -> 9

RECURSIVE DigitsVal(_, _)
DigitsVal(s, acc) ==
    IF s = <<>> THEN acc ELSE DigitsVal(Tail(s), 10 * acc + DigitVal(Head(s)))

\* i, _ := strconv.Atoi(s): the number, or 0 when s is not one (the error is dropped)
Atoi(s) ==
    LET signed == s # <<>> /\ Head(s) \in {"+", "-"}
        body == IF signed THEN Tail(s) ELSE s
    IN IF body = <<>> \/ \E i \in 1..Len(body) : body[i] \notin Digits THEN 0
       ELSE IF signed /\ Head(s) = "-" THEN 0 - DigitsVal(body, 0)
       ELSE DigitsVal(body, 0)

\* dur of runOnchange, in nanoseconds
Duration(intStr) ==
    IF Contains(intStr, NS)
    THEN Atoi(RemoveAll(intStr, NS))
    ELSE 1000000 * Atoi(RemoveAll(intStr, MS))

validateArgs_noCommand(a) ==
    IF a.dir = <<>> THEN ErrNoDir
    ELSE IF a.interval # <<>> /\ ~Contains(a.interval, NS) /\ ~Contains(a.interval, MS)
    THEN ErrInterval
    ELSE NoErr

\* validateArgs: the error it returns, or nil
validateArgs(a) ==
    IF a.dir = <<>> THEN ErrNoDir
    ELSE IF a.command = <<>> THEN ErrNoCommand
    ELSE IF a.interval # <<>> /\ ~Contains(a.interval, NS) /\ ~Contains(a.interval, MS)
    THEN ErrInterval
    ELSE NoErr

\* values of --watch-dir, --command and --interval
Dirs == {<<>>, <<"/", "p">>}

Commands == {<<>>, <<"e">>}

Intervals ==
    {<<>>, <<"5", "0", "m", "s">>, <<"5", "n", "s">>, <<"5", "0", "0", "x", "x">>,
     <<"m", "s">>}

\* the process before cobra runs PreRunE: nothing is built yet
InitBoot ==
    /\ args \in [dir : Dirs, command : Commands, interval : Intervals,
                 exclude : ExFlags, read : {FALSE}]
    /\ ex = <<>>
    /\ resetNext = FALSE
    /\ mu = FALSE
    /\ cmd = Nil
    /\ procs = [p \in Cmds |-> NoProc]
    /\ awaiters = [a \in Cmds |-> NoAwaiter]
    /\ pc = "validate"
    /\ retErr = NoErr
    /\ events = <<>>
    /\ arrived = 0
    /\ nLaunch = 0
    /\ nKill = 0
    /\ sinceTick = 0
    /\ tk = NoTick
    /\ last = [kind |-> "none", ev |-> NoEvent, logged |-> NoErr]
    /\ probe = NoProbe

\* PreRunE: validateArgs; cobra runs RunE only when it returns nil
Validate ==
    /\ pc = "validate"
    /\ IF validateArgs(args) # NoErr
       THEN pc' = "returned" /\ retErr' = validateArgs(args)
       ELSE pc' = "runE" /\ UNCHANGED retErr
    /\ UNCHANGED <<ex, resetNext, mu, cmd, procs, awaiters, events, arrived,
                   nLaunch, nKill, sinceTick, tk, last, probe, args>>

\* RunE: runOnchange up to the call of r.Run; time.NewTicker panics when the
\* duration is not positive
RunOnchange ==
    /\ pc = "runE"
    /\ IF Duration(args.interval) <= 0
       THEN /\ pc' = "panicked"
            /\ UNCHANGED <<ex, resetNext, args>>
       ELSE /\ pc' = "run"
            /\ resetNext' = InitResetNext
            /\ ex' = exArr(args.exclude)
            /\ args' = NoArgs
    /\ UNCHANGED <<mu, cmd, procs, awaiters, retErr, events, arrived, nLaunch,
                   nKill, sinceTick, tk, last, probe>>

\* Run before the loop: the watcher is made and the directories are added to it
RunSetup(ok) ==
    /\ pc = "run"
    /\ IF ok
       THEN pc' = "select" /\ UNCHANGED retErr
       ELSE pc' = "returned" /\ retErr' = ErrWatch
    /\ UNCHANGED <<ex, resetNext, mu, cmd, procs, awaiters, events, arrived,
                   nLaunch, nKill, sinceTick, tk, last, probe, args>>

NextBoot ==
    \/ Validate
    \/ RunOnchange
    \/ \E ok \in BOOLEAN : RunSetup(ok)
    \/ (pc \notin {"validate", "runE", "run"} /\ Next)

SpecBoot == InitBoot /\ [][NextBoot]_vars

(* ---------------------------------------------------------------- claims *)
\* s occurs in t as a contiguous run of characters
IsSubstring(s, t) ==
    \E i \in 0..(Len(t) - Len(s)) : SubSeq(t, i + 1, i + Len(s)) = s

\* some pattern of exs occurs in the description of e
Matches(e, exs) ==
    \E i \in 1..Len(exs) : IsSubstring(exs[i], EventString(e))

Reverse(q) == [i \in 1..Len(q) |-> q[Len(q) + 1 - i]]

\* the number of Kill calls a restart makes: one if a process was tracked
KillsDue == IF tk.old # Nil THEN 1 ELSE 0

\* C1 (coalescing): a tick taken after N >= 1 notifications armed the flag since
\* the previous tick fires a restart, and exactly one, whatever N is: the tick reads
\* the flag set, calls Kill once if a process is tracked and never twice, calls
\* Start never twice, and when the tick case is over it has called Start exactly
\* once, after the Kill, and tracks the process started.
Thm_C1 ==
    (last.kind = "tick" /\ tk.armed >= 1) =>
        /\ tk.fired
        /\ tk.kills <= KillsDue
        /\ tk.launches <= 1
        /\ tk.launches = 1 => tk.kills = KillsDue
        /\ pc = "select" =>
              /\ tk.launches = 1
              /\ tk.kills = KillsDue
              /\ cmd = nLaunch
              /\ procs[cmd].st \in {"running", "exited"}

Wit_C1 ==
    /\ last.kind = "tick"
    /\ tk.armed >= 2
    /\ pc = "select"
    /\ tk.kills = 1
    /\ tk.launches = 1

\* C2 (no spurious restart): a tick taken when some tick has fired before and no
\* notification has armed the flag since (a tick that does not fire is one that
\* found the flag clear, so "since the last tick" and "since the last tick that
\* fired" count the same notifications) ends at once: no Kill, no Start, the
\* tracked process and the awaiters untouched, the flag still false.
Thm_C2 ==
    [][(OnTick /\ nLaunch > 0 /\ sinceTick = 0) =>
          /\ pc' = "select"
          /\ ~tk'.fired
          /\ resetNext' = FALSE
          /\ ~resetNext
          /\ UNCHANGED <<cmd, procs, awaiters, nLaunch, nKill, mu>>]_vars

Wit_C2 ==
    /\ last.kind = "tick"
    /\ ~tk.fired
    /\ tk.old # Nil
    /\ pc = "select"
    /\ ~resetNext
    /\ procs[cmd].st = "running"

\* C3 (startup launch): the flag is set from construction until the first restart
\* fires; with no notification delivered at all, no Kill is ever called and Start
\* is called at most once, and once a tick case is over the command has been
\* launched exactly once and is the tracked process, however many ticks follow.
Thm_C3 ==
    /\ (nLaunch = 0 /\ pc = "select") => (resetNext /\ cmd = Nil)
    /\ arrived = 0 =>
          /\ nKill = 0
          /\ nLaunch <= 1
          /\ (pc = "select" /\ last.kind \in {"tick", "done"}) =>
                /\ nLaunch = 1
                /\ cmd = 1
                /\ procs[1].st \in {"running", "exited"}

Wit_C3 ==
    /\ arrived = 0
    /\ last.kind = "tick"
    /\ ~tk.fired
    /\ nLaunch = 1
    /\ nKill = 0
    /\ pc = "select"

\* the launched processes that are running
Live == {p \in Cmds : procs[p].st = "running"}

\* C4 (one managed process): at most one launched process is running in any
\* state, and when the tick case reaches newCmd and Start none is: the tracked
\* process was killed, or had ended, before the new one is started.
Thm_C4 ==
    /\ Cardinality(Live) <= 1
    /\ pc \in {"newCmd", "start"} => Live = {}

Wit_C4 ==
    /\ \E p \in Cmds : procs[p].st = "killed"
    /\ \E q \in Cmds : procs[q].st = "running" /\ cmd = q

\* C5 (permission changes): the events case, taking an event whose Op is exactly
\* Chmod, leaves the flag as it was, whatever the path and the flag, counts no
\* notification as arming it, and touches no process.
Thm_C5 ==
    [][(OnEvent /\ Head(events).op = Chmod) =>
          /\ resetNext' = resetNext
          /\ sinceTick' = sinceTick
          /\ pc' = "select"
          /\ UNCHANGED <<cmd, procs, nLaunch, nKill>>]_vars

Wit_C5 ==
    /\ last.kind = "event"
    /\ last.ev.op = Chmod
    /\ ~Matches(last.ev, ex)
    /\ ~resetNext
    /\ nLaunch = 1

\* C6 (excluded events): the events case, taking an event whose description
\* contains ".git" or a pattern given with --exclude, leaves the flag as it was
\* and counts no notification as arming it, so no later tick restarts for it.
Thm_C6 ==
    [][(OnEvent /\ (Matches(Head(events), ex) \/ IsSubstring(GIT, EventString(Head(events))))) =>
          /\ resetNext' = resetNext
          /\ sinceTick' = sinceTick
          /\ pc' = "select"
          /\ UNCHANGED <<cmd, procs, nLaunch, nKill>>]_vars

Wit_C6 ==
    /\ last.kind = "event"
    /\ last.ev.name = ModName
    /\ last.ev.op # Chmod
    /\ Len(ex) > 1
    /\ ~resetNext
    /\ nLaunch = 1

\* C7 (the exclusion filter): exclude(text) is true exactly when the pattern list
\* is not empty and some pattern occurs in text (the empty pattern occurs in every
\* text), and the answer is the same for the list in reverse order.
Thm_C7 ==
    probe.done =>
        /\ probe.out = (/\ probe.pats # <<>>
                        /\ \E i \in 1..Len(probe.pats) : IsSubstring(probe.pats[i], probe.text))
        /\ probe.out = exclude(probe.text, Reverse(probe.pats))

Wit_C7 ==
    /\ probe.done
    /\ probe.out
    /\ Len(probe.pats) = 2
    /\ ~IsSubstring(probe.pats[1], probe.text)
    /\ probe.pats[2] = <<>>

\* C8 (kill of a process that already ended): when Kill answers "os: process
\* already finished" Run does not return that error (it returns in that tick only
\* if Start fails); the handle no longer names the old process, it is nil until
\* newCmd, and when the tick case is over Start has been called once and its
\* process is tracked.
Thm_C8 ==
    (last.kind = "tick" /\ tk.killRes = ErrFinished) =>
        /\ pc # "kill"
        /\ retErr # ErrFinished
        /\ pc = "returned" => retErr = ErrStart
        /\ cmd # tk.old
        /\ pc = "newCmd" => cmd = Nil
        /\ pc = "select" =>
              /\ tk.launches = 1
              /\ cmd = nLaunch
              /\ procs[cmd].st \in {"running", "exited"}

Wit_C8 ==
    /\ last.kind = "tick"
    /\ tk.killRes = ErrFinished
    /\ pc = "select"
    /\ tk.launches = 1
    /\ procs[cmd].st = "running"

\* C9 (any other kill error): when Kill answers an error other than "os: process
\* already finished", Run has returned exactly that error, Start was not called
\* in that tick, and no Cmd was created: the handle still names the old process.
Thm_C9 ==
    (tk.killRes \notin {"none", NoErr, ErrFinished}) =>
        /\ pc = "returned"
        /\ retErr = tk.killRes
        /\ tk.launches = 0
        /\ cmd = tk.old
        /\ nLaunch = cmd
        /\ procs[cmd].st \in {"running", "exited"}

Wit_C9 ==
    /\ tk.killRes = ErrPerm
    /\ pc = "returned"
    /\ retErr = ErrPerm
    /\ tk.armed >= 1

\* C10 (one restart per tick): Kill and Start are called, and the handle changes,
\* only inside a tick case that found the flag set, and one tick case calls each of
\* them at most once, however many notifications armed the flag.
Thm_C10 ==
    [][(nLaunch' # nLaunch \/ nKill' # nKill \/ cmd' # cmd) =>
          /\ last.kind = "tick"
          /\ last' = last
          /\ tk.fired
          /\ pc \in {"kill", "newCmd", "start"}
          /\ tk'.kills <= 1
          /\ tk'.launches <= 1
          /\ tk'.armed = tk.armed]_vars

Wit_C10 ==
    /\ tk.armed >= 2
    /\ nLaunch = 2
    /\ nKill = 1
    /\ tk.killRes = NoErr
    /\ pc = "select"
    /\ procs[1].st = "killed"

\* C11 (watcher error): the errors case makes Run return the watcher's error, and
\* once Run has returned it the loop takes no further case: no tick, notification
\* or completion report is handled, the flag, the handle and the counters of Kill
\* and Start stay as they were, and an offered notification stays unread.
Thm_C11 ==
    [][/\ OnWatcherError => (pc' = "returned" /\ retErr' = ErrWatcher)
       /\ retErr = ErrWatcher =>
             /\ pc = "returned"
             /\ UNCHANGED <<pc, retErr, last, tk, resetNext, cmd, awaiters, events,
                            sinceTick, nLaunch, nKill, mu>>]_vars

Wit_C11 ==
    /\ last.kind = "werr"
    /\ pc = "returned"
    /\ retErr = ErrWatcher
    /\ events # <<>>
    /\ resetNext
    /\ \E a \in Cmds : awaiters[a].pc = "send"

\* the flags that the claim calls invalid
BadArgs(a) ==
    \/ a.dir = <<>>
    \/ a.command = <<>>
    \/ ~IsSubstring(MS, a.interval) /\ ~IsSubstring(NS, a.interval)

\* C12 (validation): with an empty watch-dir, an empty command or an interval that
\* contains neither "ms" nor "ns", the loop never starts: Run is not reached (so no
\* watcher is made), the runner is not built, the flag is never read and nothing is
\* launched. validateArgs returns its error, except for the empty interval, which
\* it lets through and which ends the program at time.NewTicker.
Thm_C12 ==
    (~args.read /\ BadArgs(args)) =>
        /\ pc \in {"validate", "runE", "returned", "panicked"}
        /\ pc \in {"runE", "panicked"} =>
              (args.dir # <<>> /\ args.command # <<>> /\ args.interval = <<>>)
        /\ pc = "returned" => retErr \in {ErrNoDir, ErrNoCommand, ErrInterval}
        /\ ex = <<>>
        /\ ~resetNext
        /\ cmd = Nil
        /\ nLaunch = 0
        /\ arrived = 0
        /\ last.kind = "none"

Wit_C12 ==
    /\ pc = "returned"
    /\ retErr = ErrInterval
    /\ args.interval = <<"5", "0", "0", "x", "x">>
    /\ nLaunch = 0

\* the notification e arms the flag: it is no Chmod-only event and no pattern
\* occurs in its description
Qualifies(e) == e.op # Chmod /\ ~Matches(e, ex)

\* C13 (no lost change): a notification that the watcher offers while a restart
\* is in progress stays offered until the loop is back at its select, where the
\* events case takes it; a qualifying one then sets the flag; the flag, once set,
\* is cleared only by a tick case that begins a restart, and at the select such a
\* tick can be taken whenever the flag is set (while the model has launches left).
\* So the next tick after the notification was handled restarts once more.
Thm_C13 ==
    /\ [](pc = "select" /\ resetNext /\ nLaunch < MaxLaunch
            => ENABLED (OnTick /\ tk'.fired /\ pc' \in {"kill", "newCmd"}))
    /\ [][/\ (events # <<>> /\ events' # events) =>
                /\ pc = "select"
                /\ pc' = "select"
                /\ last'.kind = "event"
                /\ Qualifies(Head(events)) => (resetNext' /\ sinceTick' = sinceTick + 1)
          /\ (resetNext /\ ~resetNext') =>
                /\ pc = "select"
                /\ pc' \in {"kill", "newCmd"}
                /\ tk'.fired]_vars

Wit_C13 ==
    /\ pc = "start"
    /\ tk.kills = 1
    /\ ~resetNext
    /\ events # <<>>
    /\ Qualifies(Head(events))

\* C14 (one awaiter per process): no awaiter calls Wait on a nil handle, and an
\* awaiter that has called Wait called it on the process whose Start spawned it.
\* The code does not keep this: the goroutine reads the variable cmd when it is
\* scheduled, which can be after a later tick case has set it to nil, to a new Cmd
\* or to a later process.
CE_C14 ==
    /\ pc # "panicked"
    /\ \A a \in Cmds : awaiters[a].pc \in {"wait", "send"} => awaiters[a].target = a

\* C15 (lock discipline): the loop changes the handle and calls Kill and Start only
\* with the lock held, and an awaiter reads the handle only while it holds the
\* lock. The code does not keep the second part: the awaiters never lock r.mu.
CE_C15 ==
    [][/\ (cmd' # cmd \/ nKill' # nKill \/ nLaunch' # nLaunch) => LockHolder = "loop"
       /\ \A a \in Cmds :
             (awaiters[a].pc = "read" /\ awaiters'[a].pc # "read") =>
                 LockHolder = "awaiter"]_vars

\* C16 (completion reports): the done case changes neither the flag nor the handle,
\* nor anything else but the record of what it logged; nor does the exit of the
\* process or the return of Wait: a process that ended on its own stays the
\* tracked one, and no restart follows from its exit.
Thm_C16 ==
    [][/\ (\E a \in Cmds : OnDone(a)) =>
             UNCHANGED <<resetNext, cmd, procs, pc, mu, retErr, nLaunch, nKill,
                         sinceTick, tk, events>>
       /\ (\/ \E p \in Cmds : ProcExit(p)
           \/ \E a \in Cmds : \E res \in {NoErr, ErrExit, ErrKilled} : AwaiterWait(a, res)) =>
             UNCHANGED <<resetNext, cmd, pc, nLaunch, nKill, sinceTick, tk>>]_vars

Wit_C16 ==
    /\ last.kind = "done"
    /\ last.logged = ErrExit
    /\ pc = "select"
    /\ cmd # Nil
    /\ procs[cmd].st = "exited"
    /\ procs[cmd].reaped
    /\ ~resetNext

\* C17 (what the events case may do): the events case calls neither Kill nor Start
\* and leaves the handle, the processes and the awaiters alone; it never clears a
\* set flag. The flag goes from false to true only in the events case, and from
\* true to false only in a tick case, in the step that locks, reads it set and
\* goes on to the restart with the lock held.
Thm_C17 ==
    [][/\ OnEvent =>
             /\ UNCHANGED <<cmd, procs, awaiters, nLaunch, nKill, mu, tk, retErr>>
             /\ pc' = "select"
             /\ resetNext => resetNext'
       /\ (~resetNext /\ resetNext') => OnEvent
       /\ (resetNext /\ ~resetNext') =>
             /\ OnTick
             /\ tk'.fired
             /\ LockHolder' = "loop"
             /\ pc' \in {"kill", "newCmd"}]_vars

Wit_C17 ==
    /\ last.kind = "event"
    /\ Qualifies(last.ev)
    /\ resetNext
    /\ sinceTick >= 1
    /\ nLaunch = 1
    /\ nKill = 0
    /\ procs[cmd].st = "running"

\* C18 (launch failure): when Start has failed (the Cmd made by newCmd is not
\* started and the tick case is past Start), Run has returned the error of Start,
\* the flag is clear, the process tracked before is killed or had ended, nothing
\* runs, and no awaiter was started for the failed Cmd.
Thm_C18 ==
    (cmd # Nil /\ procs[cmd].st = "new" /\ pc # "start") =>
        /\ pc = "returned"
        /\ retErr = ErrStart
        /\ ~resetNext
        /\ tk.fired
        /\ tk.launches = 1
        /\ tk.old # Nil => (tk.kills = 1 /\ procs[tk.old].st \in {"killed", "exited"})
        /\ Live = {}
        /\ awaiters[cmd].pc = "none"

Wit_C18 ==
    /\ pc = "returned"
    /\ retErr = ErrStart
    /\ tk.old # Nil
    /\ procs[tk.old].st = "killed"
    /\ procs[cmd].st = "new"

\* C19 (Chmod with another kind): the events case sets the flag for every event
\* whose Op is not exactly Chmod and whose description no pattern occurs in, also
\* when the Chmod bit is set together with another one.
Thm_C19 ==
    [][(OnEvent /\ Head(events).op # Chmod /\ ~Matches(Head(events), ex)) =>
          /\ resetNext'
          /\ sinceTick' = sinceTick + 1]_vars

Wit_C19 ==
    /\ last.kind = "event"
    /\ last.ev.op = Write + Chmod
    /\ HasOp(last.ev.op, Chmod)
    /\ ~Matches(last.ev, ex)
    /\ resetNext
    /\ sinceTick = 1
    /\ nLaunch = 1

\* C20 (the child after a watcher error): the errors case touches neither the
\* handle nor a process, and after Run has returned the watcher's error the handle
\* stays as it was, Kill is not called and no process becomes a killed one: a
\* child that was running goes on running until it ends on its own.
Thm_C20 ==
    [][/\ OnWatcherError => UNCHANGED <<cmd, procs, awaiters, nKill, nLaunch>>
       /\ retErr = ErrWatcher =>
             /\ cmd' = cmd
             /\ nKill' = nKill
             /\ \A p \in Cmds : procs'[p].st = "killed" => procs[p].st = "killed"]_vars

Wit_C20 ==
    /\ retErr = ErrWatcher
    /\ pc = "returned"
    /\ cmd # Nil
    /\ procs[cmd].st = "running"
    /\ nKill = 0

====
